---- MODULE Spec2Model ----
(***************************************************************************)
(* Path construction for interval (bar) and funnel marks:                  *)
(* src/src/geometry/shape/interval/util.ts.                                *)
(*                                                                         *)
(* The five exported functions are pure.  The state machine below is one   *)
(* render pass: a datum is turned into key points (getRectPoints), and     *)
(* the key points are handed to one of the path emitters; parseRadius can  *)
(* also be applied on its own.  The variables hold the arguments of the    *)
(* calls and their results.                                                *)
(*                                                                         *)
(* Numbers are IEEE-754 binary64 values and every arithmetic operation     *)
(* rounds as the code's does, so that size / 2, (yMax + yMin) / 2,         *)
(* r * width / height and the trip through visual space and back give the  *)
(* values the code gives.                                                  *)
(***************************************************************************)
EXTENDS Integers, Sequences, FiniteSets, TLC

VARIABLES
    pc,         \* "idle" | "points" | "done"
    fn,         \* the function applied last
    pointInfo,  \* ShapePoint handed to getRectPoints
    isPyramid,  \* flag handed to getRectPoints / getFunnelPath
    points,     \* the caller's key points (the list handed to the emitters)
    nextPoints, \* key points of the next funnel level, or Null
    isClosed,   \* flag handed to getRectPath
    lineCap,    \* lineCap handed to getIntervalRectPath
    coor,       \* coordinate system handed to getIntervalRectPath
    style,      \* style handed to getIntervalRectPath
    radiusSpec, \* RadiusSpec handed to parseRadius
    before,     \* points and style as they were when getIntervalRectPath was called
    ret         \* the value returned by the last call

vars == <<pc, fn, pointInfo, isPyramid, points, nextPoints, isClosed,
          lineCap, coor, style, radiusSpec, before, ret>>

(***************************************************************************)
(* Bound of the input sets: a corner radius is 0, 1 or MaxRadius.           *)
(***************************************************************************)
MaxRadius == 2

(***************************************************************************)
(* Natural numbers of any size: a sequence of limbs in base 2^15, least    *)
(* significant first, without leading zero limbs (zero is << >>).  They    *)
(* carry the 53-bit significands of the numbers below and the exact        *)
(* results that are rounded to them.                                       *)
(***************************************************************************)
LimbBits == 15
LimbBase == 2^LimbBits

Abs(i) == IF i < 0 THEN -i ELSE i
Max(a, b) == IF a > b THEN a ELSE b
Min(a, b) == IF a < b THEN a ELSE b

RECURSIVE BStrip(_)
BStrip(a) ==
    IF a = <<>> THEN <<>>
    ELSE IF a[Len(a)] = 0 THEN BStrip(SubSeq(a, 1, Len(a) - 1))
    ELSE a

\* a natural number below 2^31 as limbs
BFromInt(n) ==
    BStrip(<<n % LimbBase, (n \div LimbBase) % LimbBase, n \div (LimbBase * LimbBase)>>)

Limb(a, i) == IF i <= Len(a) THEN a[i] ELSE 0

RECURSIVE BAddFrom(_, _, _, _)
BAddFrom(a, b, i, carry) ==
    IF i > Len(a) /\ i > Len(b)
    THEN IF carry = 0 THEN <<>> ELSE <<carry>>
    ELSE <<(Limb(a, i) + Limb(b, i) + carry) % LimbBase>>
         \o BAddFrom(a, b, i + 1, (Limb(a, i) + Limb(b, i) + carry) \div LimbBase)

BAdd(a, b) == BAddFrom(a, b, 1, 0)

RECURSIVE BSubFrom(_, _, _, _)
BSubFrom(a, b, i, borrow) ==
    IF i > Len(a) THEN <<>>
    ELSE IF a[i] - Limb(b, i) - borrow < 0
    THEN <<a[i] - Limb(b, i) - borrow + LimbBase>> \o BSubFrom(a, b, i + 1, 1)
    ELSE <<a[i] - Limb(b, i) - borrow>> \o BSubFrom(a, b, i + 1, 0)

\* a - b for a >= b
BSub(a, b) == BStrip(BSubFrom(a, b, 1, 0))

RECURSIVE BCmpAt(_, _, _)
BCmpAt(a, b, i) ==
    IF i = 0 THEN 0
    ELSE IF a[i] < b[i] THEN -1
    ELSE IF a[i] > b[i] THEN 1
    ELSE BCmpAt(a, b, i - 1)

\* -1, 0, 1 as a < b, a = b, a > b
BCmp(a, b) ==
    IF Len(a) < Len(b) THEN -1
    ELSE IF Len(a) > Len(b) THEN 1
    ELSE BCmpAt(a, b, Len(a))

RECURSIVE BMulSmallFrom(_, _, _, _)
BMulSmallFrom(a, d, i, carry) ==
    IF i > Len(a)
    THEN IF carry = 0 THEN <<>> ELSE <<carry>>
    ELSE <<(a[i] * d + carry) % LimbBase>>
         \o BMulSmallFrom(a, d, i + 1, (a[i] * d + carry) \div LimbBase)

\* a * d for 0 <= d <= 2^15
BMulSmall(a, d) == BStrip(BMulSmallFrom(a, d, 1, 0))

\* a * 2^(15 k)
BShiftLimbs(a, k) == IF a = <<>> THEN <<>> ELSE [i \in 1..k |-> 0] \o a

RECURSIVE BMulFrom(_, _, _)
BMulFrom(a, b, j) ==
    IF j > Len(b) THEN <<>>
    ELSE BAdd(BShiftLimbs(BMulSmall(a, b[j]), j - 1), BMulFrom(a, b, j + 1))

BMul(a, b) == BMulFrom(a, b, 1)

\* quotient and remainder of a by d, 1 <= d <= 2^15, from limb i down
RECURSIVE BDivSmallFrom(_, _, _, _, _)
BDivSmallFrom(a, d, i, rem, acc) ==
    IF i = 0 THEN [q |-> BStrip(acc), r |-> rem]
    ELSE BDivSmallFrom(a, d, i - 1, (rem * LimbBase + a[i]) % d,
                       <<(rem * LimbBase + a[i]) \div d>> \o acc)

BDivSmall(a, d) == BDivSmallFrom(a, d, Len(a), 0, <<>>)

\* a * 2^k
BShl(a, k) == BMulSmall(BShiftLimbs(a, k \div LimbBits), 2^(k % LimbBits))

\* floor(a / 2^k)
BShr(a, k) ==
    IF k \div LimbBits >= Len(a) THEN <<>>
    ELSE BDivSmall(SubSeq(a, (k \div LimbBits) + 1, Len(a)), 2^(k % LimbBits)).q

RECURSIVE BitLenInt(_)
BitLenInt(n) == IF n = 0 THEN 0 ELSE 1 + BitLenInt(n \div 2)

\* number of bits of a (0 for zero)
BBitLen(a) == IF a = <<>> THEN 0 ELSE LimbBits * (Len(a) - 1) + BitLenInt(a[Len(a)])

RECURSIVE TzInt(_)
TzInt(n) == IF n % 2 = 1 THEN 0 ELSE 1 + TzInt(n \div 2)

\* number of trailing zero bits of a # 0
RECURSIVE BTz(_)
BTz(a) == IF a[1] = 0 THEN LimbBits + BTz(Tail(a)) ELSE TzInt(a[1])

\* bit i (from 0) of a
BTestBit(a, i) ==
    (Limb(a, (i \div LimbBits) + 1) \div 2^(i % LimbBits)) % 2 = 1

\* some bit below bit k of a is set
BLowNonZero(a, k) ==
    \/ \E j \in 1..Min(k \div LimbBits, Len(a)) : a[j] # 0
    \/ Limb(a, (k \div LimbBits) + 1) % 2^(k % LimbBits) # 0

\* quotient and remainder of a by b # 0, bit by bit from bit i down
RECURSIVE BDivLongFrom(_, _, _, _, _)
BDivLongFrom(a, b, i, q, rem) ==
    IF i < 0 THEN [q |-> q, r |-> rem]
    ELSE LET shifted == BAdd(BAdd(rem, rem), IF BTestBit(a, i) THEN <<1>> ELSE <<>>)
         IN  IF BCmp(shifted, b) >= 0
             THEN BDivLongFrom(a, b, i - 1, BAdd(BAdd(q, q), <<1>>), BSub(shifted, b))
             ELSE BDivLongFrom(a, b, i - 1, BAdd(q, q), shifted)

BDivMod(a, b) ==
    IF Len(b) = 1 THEN LET qr == BDivSmall(a, b[1]) IN [q |-> qr.q, r |-> BFromInt(qr.r)]
    ELSE BDivLongFrom(a, b, BBitLen(a) - 1, <<>>, <<>>)

(***************************************************************************)
(* Numbers: IEEE-754 binary64 values, as the code computes with them.  A   *)
(* finite number is (-1)^s * m * 2^e with m odd (or zero); every           *)
(* operation rounds its exact result to 53 significant bits, to nearest,   *)
(* ties to even, with gradual underflow below 2^-1022 and overflow to      *)
(* Infinity from 2^1024.  Zero carries a sign, as every number does.       *)
(***************************************************************************)
Zero(s) == [k |-> "num", s |-> s, m |-> <<>>, e |-> 0]
Infinity(s) == [k |-> "inf", s |-> s]
NaN == [k |-> "nan"]

IsZero(a) == a.k = "num" /\ a.m = <<>>

\* the number (-1)^s * m * 2^e, which is known to be representable
Canon(s, m, e) ==
    IF m = <<>> THEN Zero(s)
    ELSE IF m[1] % 2 = 1 THEN [k |-> "num", s |-> s, m |-> m, e |-> e]
    ELSE LET tz == BTz(m) IN [k |-> "num", s |-> s, m |-> BShr(m, tz), e |-> e + tz]

\* the exact value (-1)^s * m * 2^e rounded to the nearest number
Round(s, m, e) ==
    IF m = <<>> THEN Zero(s)
    ELSE LET q == Max(e + BBitLen(m) - 53, -1074)
             shift == q - e
         IN  IF shift <= 0
             THEN IF e + BBitLen(m) > 1024 THEN Infinity(s) ELSE Canon(s, m, e)
             ELSE LET t == BShr(m, shift)
                      up == /\ BTestBit(m, shift - 1)
                            /\ (BLowNonZero(m, shift - 1) \/ BTestBit(t, 0))
                      rounded == IF up THEN BAdd(t, <<1>>) ELSE t
                  IN  IF q + BBitLen(rounded) > 1024 THEN Infinity(s)
                      ELSE Canon(s, rounded, q)

\* the integer i, |i| < 2^31
R(i) == Canon(IF i < 0 THEN 1 ELSE 0, BFromInt(Abs(i)), 0)

Neg(a) == IF a.k = "nan" THEN a ELSE [a EXCEPT !.s = 1 - a.s]

\* a + b
Plus(a, b) ==
    IF a.k = "nan" \/ b.k = "nan" THEN NaN
    ELSE IF a.k = "inf" THEN (IF b.k = "inf" /\ b.s # a.s THEN NaN ELSE a)
    ELSE IF b.k = "inf" THEN b
    ELSE IF IsZero(a) /\ IsZero(b) THEN Zero(IF a.s = 1 /\ b.s = 1 THEN 1 ELSE 0)
    ELSE IF IsZero(a) THEN b
    ELSE IF IsZero(b) THEN a
    ELSE LET e == Min(a.e, b.e)
             ma == BShl(a.m, a.e - e)
             mb == BShl(b.m, b.e - e)
             cmp == BCmp(ma, mb)
         IN  IF a.s = b.s THEN Round(a.s, BAdd(ma, mb), e)
             ELSE IF cmp = 0 THEN Zero(0)
             ELSE IF cmp > 0 THEN Round(a.s, BSub(ma, mb), e)
             ELSE Round(b.s, BSub(mb, ma), e)

\* a - b
Minus(a, b) == Plus(a, Neg(b))

\* a * b
Times(a, b) ==
    IF a.k = "nan" \/ b.k = "nan" THEN NaN
    ELSE IF a.k = "inf" \/ b.k = "inf"
    THEN (IF IsZero(a) \/ IsZero(b) THEN NaN ELSE Infinity((a.s + b.s) % 2))
    ELSE IF IsZero(a) \/ IsZero(b) THEN Zero((a.s + b.s) % 2)
    ELSE Round((a.s + b.s) % 2, BMul(a.m, b.m), a.e + b.e)

\* a / b
Over(a, b) ==
    IF a.k = "nan" \/ b.k = "nan" THEN NaN
    ELSE IF a.k = "inf" THEN (IF b.k = "inf" THEN NaN ELSE Infinity((a.s + b.s) % 2))
    ELSE IF b.k = "inf" THEN Zero((a.s + b.s) % 2)
    ELSE IF IsZero(b) THEN (IF IsZero(a) THEN NaN ELSE Infinity((a.s + b.s) % 2))
    ELSE IF IsZero(a) THEN Zero((a.s + b.s) % 2)
    ELSE LET k == Max(56 + BBitLen(b.m) - BBitLen(a.m), 0)
             qr == BDivMod(BShl(a.m, k), b.m)
             sticky == IF qr.r = <<>> THEN <<>> ELSE <<1>>
         IN  Round((a.s + b.s) % 2, BAdd(BAdd(qr.q, qr.q), sticky), a.e - b.e - k - 1)

\* the number the code gets for n / d, n and d integers
Rat(n, d) == Over(R(n), R(d))

\* a === b on numbers: NaN equals nothing, and -0 equals 0
StrictEq(a, b) ==
    /\ a.k # "nan"
    /\ b.k # "nan"
    /\ (a = b \/ (IsZero(a) /\ IsZero(b)))

(***************************************************************************)
(* Values whose runtime type the code inspects: a number, an array, or     *)
(* undefined / null.                                                       *)
(***************************************************************************)
Num(q) == [type |-> "number", v |-> q]
Arr(s) == [type |-> "array", v |-> s]
Undefined == [type |-> "undefined"]
Null == [type |-> "null"]

isArray(value) == value.type = "array"
isNil(value) == value.type \in {"undefined", "null"}
\* the truthiness test of `style?.radius`
Truthy(value) ==
    \/ value.type = "array"
    \/ value.type = "number" /\ ~IsZero(value.v) /\ value.v.k # "nan"

\* a[i] with a 0-based index i; undefined past the end
At(a, i) == IF i + 1 <= Len(a) THEN a[i + 1] ELSE Undefined

(***************************************************************************)
(* parseRadius                                                             *)
(***************************************************************************)
\* variant: a 3-element list gives r4 the first entry instead of the second
parseRadiusThreeWrapsToFirst(radius) ==
    IF isArray(radius)
    THEN LET a == radius.v IN
         IF Len(a) = 1 THEN <<a[1], a[1], a[1], a[1]>>
         ELSE IF Len(a) = 2 THEN <<a[1], a[2], a[1], a[2]>>
         ELSE IF Len(a) = 3 THEN <<a[1], a[2], a[3], a[1]>>
         ELSE <<At(a, 0), At(a, 1), At(a, 2), At(a, 3)>>
    ELSE <<radius.v, radius.v, radius.v, radius.v>>

parseRadius(radius) ==
    IF isArray(radius)
    THEN LET a == radius.v IN
         IF Len(a) = 1 THEN <<a[1], a[1], a[1], a[1]>>
         ELSE IF Len(a) = 2 THEN <<a[1], a[2], a[1], a[2]>>
         ELSE IF Len(a) = 3 THEN <<a[1], a[2], a[3], a[2]>>
         ELSE <<At(a, 0), At(a, 1), At(a, 2), At(a, 3)>>
    ELSE <<radius.v, radius.v, radius.v, radius.v>>

(***************************************************************************)
(* getRectPoints                                                           *)
(***************************************************************************)
Point(px, py) == [x |-> px, y |-> py]

\* variant: the horizontal extent is x -+ size instead of x -+ size / 2
getRectPointsFullSize(info, pyramid) ==
    LET yMin == IF isArray(info.y) THEN info.y.v[1] ELSE info.y0
        yMax == IF isArray(info.y) THEN info.y.v[2] ELSE info.y.v
        xMin == IF isArray(info.x) THEN info.x.v[1] ELSE Minus(info.x.v, info.size)
        xMax == IF isArray(info.x) THEN info.x.v[2] ELSE Plus(info.x.v, info.size)
        base == <<Point(xMin, yMin), Point(xMin, yMax)>>
    IN  IF pyramid
        THEN Append(base, Point(xMax, Over(Plus(yMax, yMin), R(2))))
        ELSE base \o <<Point(xMax, yMax), Point(xMax, yMin)>>

\* variant: a scalar y takes y as the minimum and y0 as the maximum
getRectPointsBaselineOnTop(info, pyramid) ==
    LET yMin == IF isArray(info.y) THEN info.y.v[1] ELSE info.y.v
        yMax == IF isArray(info.y) THEN info.y.v[2] ELSE info.y0
        xMin == IF isArray(info.x) THEN info.x.v[1]
                ELSE Minus(info.x.v, Over(info.size, R(2)))
        xMax == IF isArray(info.x) THEN info.x.v[2]
                ELSE Plus(info.x.v, Over(info.size, R(2)))
        base == <<Point(xMin, yMin), Point(xMin, yMax)>>
    IN  IF pyramid
        THEN Append(base, Point(xMax, Over(Plus(yMax, yMin), R(2))))
        ELSE base \o <<Point(xMax, yMax), Point(xMax, yMin)>>

getRectPoints(info, pyramid) ==
    LET yMin == IF isArray(info.y) THEN info.y.v[1] ELSE info.y0
        yMax == IF isArray(info.y) THEN info.y.v[2] ELSE info.y.v
        xMin == IF isArray(info.x) THEN info.x.v[1]
                ELSE Minus(info.x.v, Over(info.size, R(2)))
        xMax == IF isArray(info.x) THEN info.x.v[2]
                ELSE Plus(info.x.v, Over(info.size, R(2)))
        base == <<Point(xMin, yMin), Point(xMin, yMax)>>
    IN  IF pyramid
        THEN Append(base, Point(xMax, Over(Plus(yMax, yMin), R(2))))
        ELSE base \o <<Point(xMax, yMax), Point(xMax, yMin)>>

(***************************************************************************)
(* getRectPath                                                             *)
(***************************************************************************)
\* variant: a closed path gets the Close but not the Line back to the first point
getRectPathNoClosingLine(pts, closed) ==
    LET firstPoint == pts[1]
        open == <<<<"M", firstPoint.x, firstPoint.y>>>>
                \o [i \in 1..(Len(pts) - 1) |-> <<"L", pts[i + 1].x, pts[i + 1].y>>]
    IN  IF closed THEN Append(open, <<"z">>) ELSE open

getRectPath(pts, closed) ==
    LET firstPoint == pts[1]
        open == <<<<"M", firstPoint.x, firstPoint.y>>>>
                \o [i \in 1..(Len(pts) - 1) |-> <<"L", pts[i + 1].x, pts[i + 1].y>>]
    IN  IF closed
        THEN open \o <<<<"L", firstPoint.x, firstPoint.y>>, <<"z">>>>
        ELSE open

(***************************************************************************)
(* getFunnelPath                                                           *)
(***************************************************************************)
\* variant: the next level is traced bottom first
getFunnelPathNextBottomFirst(pts, nxt, pyramid) ==
    IF ~isNil(nxt)
    THEN << <<"M", pts[1].x, pts[1].y>>,
            <<"L", pts[2].x, pts[2].y>>,
            <<"L", nxt.v[1].x, nxt.v[1].y>>,
            <<"L", nxt.v[2].x, nxt.v[2].y>>,
            <<"Z">> >>
    ELSE IF pyramid
    THEN << <<"M", pts[1].x, pts[1].y>>,
            <<"L", pts[2].x, pts[2].y>>,
            <<"L", pts[3].x, pts[3].y>>,
            <<"L", pts[3].x, pts[3].y>>,
            <<"Z">> >>
    ELSE << <<"M", pts[1].x, pts[1].y>>,
            <<"L", pts[2].x, pts[2].y>>,
            <<"L", pts[3].x, pts[3].y>>,
            <<"L", pts[4].x, pts[4].y>>,
            <<"Z">> >>

getFunnelPath(pts, nxt, pyramid) ==
    IF ~isNil(nxt)
    THEN << <<"M", pts[1].x, pts[1].y>>,
            <<"L", pts[2].x, pts[2].y>>,
            <<"L", nxt.v[2].x, nxt.v[2].y>>,
            <<"L", nxt.v[1].x, nxt.v[1].y>>,
            <<"Z">> >>
    ELSE IF pyramid
    THEN << <<"M", pts[1].x, pts[1].y>>,
            <<"L", pts[2].x, pts[2].y>>,
            <<"L", pts[3].x, pts[3].y>>,
            <<"L", pts[3].x, pts[3].y>>,
            <<"Z">> >>
    ELSE << <<"M", pts[1].x, pts[1].y>>,
            <<"L", pts[2].x, pts[2].y>>,
            <<"L", pts[3].x, pts[3].y>>,
            <<"L", pts[4].x, pts[4].y>>,
            <<"Z">> >>

(***************************************************************************)
(* The coordinate system handed to getIntervalRectPath.  It is an external *)
(* collaborator; the emitter reads its width, height, type and             *)
(* isTransposed and calls convert and invertPoint.  It is modelled as the  *)
(* mapping of the unit square onto a plot area of width x height whose     *)
(* origin is the bottom-left corner (visual y grows downwards), with x and *)
(* y swapped when transposed; invertPoint is its inverse, up to the        *)
(* rounding of the multiplications and divisions that the two perform.     *)
(***************************************************************************)
getWidth(c) == c.width
getHeight(c) == c.height

convert(c, p) ==
    LET px == IF c.isTransposed THEN p.y ELSE p.x
        py == IF c.isTransposed THEN p.x ELSE p.y
    IN  Point(Times(px, c.width), Minus(c.height, Times(py, c.height)))

invertPoint(c, p) ==
    LET ix == Over(p.x, c.width)
        iy == Over(Minus(c.height, p.y), c.height)
    IN  IF c.isTransposed THEN Point(iy, ix) ELSE Point(ix, iy)

(***************************************************************************)
(* Array helpers used on a path command: p.slice(-2), p.splice(-2, 2, a, b)*)
(***************************************************************************)
\* p.slice(-2): the last two elements (all of p when it is shorter)
sliceLast2(p) == SubSeq(p, Max(Len(p) - 2, 0) + 1, Len(p))

\* p.splice(-2, 2, a, b): the last two elements replaced by a, b
spliceLast2(p, a, b) == SubSeq(p, 1, Max(Len(p) - 2, 0)) \o <<a, b>>

(***************************************************************************)
(* getIntervalRectPath                                                     *)
(***************************************************************************)
\* style?.radius
styleRadius(st) == IF isNil(st) THEN Undefined ELSE st.radius

\* variant: ry is r * width / height whether or not the system is transposed
roundCapPathIgnoresTranspose(pts, c) ==
    LET r == Over(Minus(pts[3].x, pts[2].x), R(2))
        ry == Over(Times(r, getWidth(c)), getHeight(c))
        inset == IF c.type = "rect" THEN ry ELSE R(0)
    IN  << <<"M", pts[1].x, Plus(pts[1].y, inset)>>,
           <<"L", pts[2].x, Minus(pts[2].y, inset)>>,
           <<"A", r, r, R(0), R(0), R(1), pts[3].x, Minus(pts[3].y, inset)>>,
           <<"L", pts[4].x, Plus(pts[4].y, inset)>>,
           <<"A", r, r, R(0), R(0), R(1), pts[1].x, Plus(pts[1].y, inset)>>,
           <<"z">> >>

\* lineCap === 'round' : lines 134-147
roundCapPath(pts, c) ==
    LET width == getWidth(c)
        height == getHeight(c)
        isRect == c.type = "rect"
        r == Over(Minus(pts[3].x, pts[2].x), R(2))
        ry == IF c.isTransposed THEN Over(Times(r, height), width)
              ELSE Over(Times(r, width), height)
    IN  IF isRect
        THEN << <<"M", pts[1].x, Plus(pts[1].y, ry)>>,
                <<"L", pts[2].x, Minus(pts[2].y, ry)>>,
                <<"A", r, r, R(0), R(0), R(1), pts[3].x, Minus(pts[3].y, ry)>>,
                <<"L", pts[4].x, Plus(pts[4].y, ry)>>,
                <<"A", r, r, R(0), R(0), R(1), pts[1].x, Plus(pts[1].y, ry)>>,
                <<"z">> >>
        ELSE << <<"M", pts[1].x, pts[1].y>>,
                <<"L", pts[2].x, pts[2].y>>,
                <<"A", r, r, R(0), R(0), R(1), pts[3].x, pts[3].y>>,
                <<"L", pts[4].x, pts[4].y>>,
                <<"A", r, r, R(0), R(0), R(1), pts[1].x, pts[1].y>>,
                <<"z">> >>

\* variant: the points are converted in place
mapConvertInPlace(pts, c) ==
    [converted |-> [i \in 1..Len(pts) |-> convert(c, pts[i])],
     points |-> [i \in 1..Len(pts) |-> convert(c, pts[i])]]

\* points.map((p) => coor.convert(p)) : the new array, and the receiver
\* afterwards (map does not write to it)
mapConvert(pts, c) ==
    [converted |-> [i \in 1..Len(pts) |-> convert(c, pts[i])],
     points |-> pts]

\* variant: the command is pushed whatever the radius
pushAlways(r, cmd) == <<cmd>>

\* r !== 0 && path.push(cmd)
pushIfNonZero(r, cmd) == IF ~StrictEq(r, R(0)) THEN <<cmd>> ELSE <<>>

\* variant: the last Line stops short of the bottom-left corner by r4, not r1
visualPathLastLineByR4(converted, radii) ==
    LET r1 == radii[1]
        r2 == radii[2]
        r3 == radii[3]
        r4 == radii[4]
        c0 == converted[1]
        c1 == converted[2]
        c2 == converted[3]
        c3 == converted[4]
    IN  << <<"M", c0.x, Minus(c0.y, r1)>>,
           <<"L", c1.x, Plus(c1.y, r2)>> >>
        \o pushIfNonZero(r2, <<"A", r2, r2, R(0), R(0), R(1), Plus(c1.x, r2), c1.y>>)
        \o << <<"L", Minus(c2.x, r3), c2.y>> >>
        \o pushIfNonZero(r3, <<"A", r3, r3, R(0), R(0), R(1), c2.x, Plus(c2.y, r3)>>)
        \o << <<"L", c3.x, Minus(c3.y, r4)>> >>
        \o pushIfNonZero(r4, <<"A", r4, r4, R(0), R(0), R(1), Minus(c3.x, r4), c3.y>>)
        \o << <<"L", Plus(c0.x, r4), c0.y>> >>
        \o pushIfNonZero(r1, <<"A", r1, r1, R(0), R(0), R(1), c0.x, Minus(c0.y, r1)>>)

\* lines 152-160: the rounded rectangle in visual space
visualPath(converted, radii) ==
    LET r1 == radii[1]
        r2 == radii[2]
        r3 == radii[3]
        r4 == radii[4]
        c0 == converted[1]
        c1 == converted[2]
        c2 == converted[3]
        c3 == converted[4]
    IN  << <<"M", c0.x, Minus(c0.y, r1)>>,
           <<"L", c1.x, Plus(c1.y, r2)>> >>
        \o pushIfNonZero(r2, <<"A", r2, r2, R(0), R(0), R(1), Plus(c1.x, r2), c1.y>>)
        \o << <<"L", Minus(c2.x, r3), c2.y>> >>
        \o pushIfNonZero(r3, <<"A", r3, r3, R(0), R(0), R(1), c2.x, Plus(c2.y, r3)>>)
        \o << <<"L", c3.x, Minus(c3.y, r4)>> >>
        \o pushIfNonZero(r4, <<"A", r4, r4, R(0), R(0), R(1), Minus(c3.x, r4), c3.y>>)
        \o << <<"L", Plus(c0.x, r1), c0.y>> >>
        \o pushIfNonZero(r1, <<"A", r1, r1, R(0), R(0), R(1), c0.x, Minus(c0.y, r1)>>)

\* the body of path.forEach : lines 163-165
invertCommand(p, c) ==
    LET xy == sliceLast2(p)
        inverted == invertPoint(c, Point(xy[1], xy[2]))
    IN  spliceLast2(p, inverted.x, inverted.y)

\* path.forEach(...) : lines 162-166
invertPath(path, c) == [i \in 1..Len(path) |-> invertCommand(path[i], c)]

\* style?.radius truthy : lines 149-168
cornerPath(pts, c, radius) ==
    LET radii == parseRadius(radius)
        converted == mapConvert(pts, c).converted
    IN  Append(invertPath(visualPath(converted, radii), c), <<"z">>)

\* variant: a radius in the style is looked at before lineCap
callIntervalRectPathRadiusFirst(pts, cap, c, st) ==
    IF Truthy(styleRadius(st))
    THEN [path |-> cornerPath(pts, c, styleRadius(st)),
          points |-> mapConvert(pts, c).points, style |-> st]
    ELSE IF cap = "round"
    THEN [path |-> roundCapPath(pts, c), points |-> pts, style |-> st]
    ELSE [path |-> getRectPath(pts, TRUE), points |-> pts, style |-> st]

\* One call: the returned path, and the caller's points list and style as the
\* call leaves them.
callIntervalRectPath(pts, cap, c, st) ==
    IF cap = "round"
    THEN [path |-> roundCapPath(pts, c), points |-> pts, style |-> st]
    ELSE IF Truthy(styleRadius(st))
    THEN [path |-> cornerPath(pts, c, styleRadius(st)),
          points |-> mapConvert(pts, c).points, style |-> st]
    ELSE [path |-> getRectPath(pts, TRUE), points |-> pts, style |-> st]

getIntervalRectPath(pts, cap, c, st) == callIntervalRectPath(pts, cap, c, st).path

(***************************************************************************)
(* Inputs.                                                                 *)
(***************************************************************************)
RadiusValues == {R(0), R(1), R(MaxRadius)}
RadiusLists == UNION {[1..k -> RadiusValues] : k \in 1..4}
\* a number, or a list of 1 to 4 numbers, all non-negative
RadiusSpecs == {Num(v) : v \in RadiusValues} \cup {Arr(a) : a \in RadiusLists}

Styles == {Undefined}
          \cup {[type |-> "object", radius |-> r] : r \in RadiusSpecs \cup {Undefined}}

\* a CanvasLineCap, or "undefined" when the caller passes none
LineCaps == {"round", "butt", "undefined"}

Coordinate(t, b, w, h) == [type |-> t, isTransposed |-> b, width |-> R(w), height |-> R(h)]
Coordinates ==
    {Coordinate("rect", b, 300, 200) : b \in BOOLEAN}
    \cup {Coordinate("polar", FALSE, 300, 200)}

XValues == {Num(R(10)), Arr(<<Rat(3, 7), Rat(6, 7)>>)}
YValues == {Num(R(6)), Arr(<<R(0), R(7)>>)}
Sizes == {R(4)}
ShapePoints ==
    {[x |-> vx, y |-> vy, y0 |-> R(2), size |-> s] :
        vx \in XValues, vy \in YValues, s \in Sizes}

(***************************************************************************)
(* The state machine.                                                      *)
(***************************************************************************)
Init ==
    /\ pc = "idle"
    /\ fn = "none"
    /\ pointInfo = Undefined
    /\ isPyramid = FALSE
    /\ points = <<>>
    /\ nextPoints = Undefined
    /\ isClosed = TRUE
    /\ lineCap = "undefined"
    /\ coor = Undefined
    /\ style = Undefined
    /\ radiusSpec = Undefined
    /\ before = Undefined
    /\ ret = Undefined

CallParseRadius ==
    /\ pc = "idle"
    /\ \E r \in RadiusSpecs :
        /\ radiusSpec' = r
        /\ ret' = parseRadius(r)
    /\ fn' = "parseRadius"
    /\ pc' = "done"
    /\ UNCHANGED <<pointInfo, isPyramid, points, nextPoints, isClosed,
                   lineCap, coor, style, before>>

CallGetRectPoints ==
    /\ pc = "idle"
    /\ \E info \in ShapePoints, pyramid \in BOOLEAN :
        /\ pointInfo' = info
        /\ isPyramid' = pyramid
        /\ points' = getRectPoints(info, pyramid)
        /\ ret' = getRectPoints(info, pyramid)
    /\ fn' = "getRectPoints"
    /\ pc' = "points"
    /\ UNCHANGED <<nextPoints, isClosed, lineCap, coor, style, radiusSpec, before>>

\* the straight emitter on the first n key points
CallGetRectPath ==
    /\ pc = "points"
    /\ \E n \in 1..Len(points), closed \in BOOLEAN :
        /\ points' = SubSeq(points, 1, n)
        /\ isClosed' = closed
        /\ ret' = getRectPath(SubSeq(points, 1, n), closed)
    /\ fn' = "getRectPath"
    /\ pc' = "done"
    /\ UNCHANGED <<pointInfo, isPyramid, nextPoints, lineCap, coor, style, radiusSpec, before>>

CallGetIntervalRectPath ==
    /\ pc = "points"
    /\ Len(points) = 4
    /\ \E cap \in LineCaps, c \in Coordinates, st \in Styles :
        \E call \in {callIntervalRectPath(points, cap, c, st)} :
        /\ before' = [points |-> points, style |-> st]
        /\ lineCap' = cap
        /\ coor' = c
        /\ style' = call.style
        /\ points' = call.points
        /\ ret' = call.path
    /\ fn' = "getIntervalRectPath"
    /\ pc' = "done"
    /\ UNCHANGED <<pointInfo, isPyramid, nextPoints, isClosed, radiusSpec>>

CallGetFunnelPath ==
    /\ pc = "points"
    /\ \E nxt \in {Null, Undefined}
                  \cup {Arr(getRectPoints(info, isPyramid)) : info \in ShapePoints} :
        /\ nextPoints' = nxt
        /\ ret' = getFunnelPath(points, nxt, isPyramid)
    /\ fn' = "getFunnelPath"
    /\ pc' = "done"
    /\ UNCHANGED <<pointInfo, isPyramid, points, isClosed, lineCap, coor, style, radiusSpec, before>>

Next ==
    \/ CallParseRadius
    \/ CallGetRectPoints
    \/ CallGetRectPath
    \/ CallGetIntervalRectPath
    \/ CallGetFunnelPath

Spec == Init /\ [][Next]_vars

(***************************************************************************)
(* Properties.                                                             *)
(***************************************************************************)
Half(q) == Over(q, R(2))
NonNegative(q) == q.k # "nan" /\ (q.s = 0 \/ IsZero(q))

\* C1: parseRadius maps a number v to (v, v, v, v), [a] to (a, a, a, a),
\* [a, b] to (a, b, a, b), [a, b, c] to (a, b, c, b) and [a, b, c, d] to
\* (a, b, c, d); the result has four entries, all non-negative.
C1_ParseRadius ==
    fn = "parseRadius" =>
        LET a == radiusSpec.v IN
        /\ radiusSpec.type = "number" => ret = <<a, a, a, a>>
        /\ radiusSpec.type = "array" /\ Len(a) = 1 => ret = <<a[1], a[1], a[1], a[1]>>
        /\ radiusSpec.type = "array" /\ Len(a) = 2 => ret = <<a[1], a[2], a[1], a[2]>>
        /\ radiusSpec.type = "array" /\ Len(a) = 3 => ret = <<a[1], a[2], a[3], a[2]>>
        /\ radiusSpec.type = "array" /\ Len(a) = 4 => ret = <<a[1], a[2], a[3], a[4]>>
        /\ Len(ret) = 4
        /\ \A i \in 1..4 : NonNegative(ret[i])

C1_Witness ==
    /\ fn = "parseRadius"
    /\ radiusSpec = Arr(<<R(1), R(2), R(0)>>)
    /\ ret = <<R(1), R(2), R(0), R(2)>>

\* C2: getRectPoints returns (xMin,yMin), (xMin,yMax), (xMax,yMax), (xMax,yMin),
\* or (xMin,yMin), (xMin,yMax), (xMax,(yMin+yMax)/2) for a pyramid, where
\* (yMin, yMax) is y or (y0, y) and (xMin, xMax) is x or (x - size/2, x + size/2);
\* the length is 3 exactly for a pyramid, else 4, and points 0 and 1 share x.
C2_RectPoints ==
    fn = "getRectPoints" =>
        LET yRange == pointInfo.y.type = "array"
            xRange == pointInfo.x.type = "array"
            yMin == IF yRange THEN pointInfo.y.v[1] ELSE pointInfo.y0
            yMax == IF yRange THEN pointInfo.y.v[2] ELSE pointInfo.y.v
            xMin == IF xRange THEN pointInfo.x.v[1]
                    ELSE Minus(pointInfo.x.v, Half(pointInfo.size))
            xMax == IF xRange THEN pointInfo.x.v[2]
                    ELSE Plus(pointInfo.x.v, Half(pointInfo.size))
        IN  /\ ~isPyramid =>
                ret = << [x |-> xMin, y |-> yMin], [x |-> xMin, y |-> yMax],
                         [x |-> xMax, y |-> yMax], [x |-> xMax, y |-> yMin] >>
            /\ isPyramid =>
                ret = << [x |-> xMin, y |-> yMin], [x |-> xMin, y |-> yMax],
                         [x |-> xMax, y |-> Half(Plus(yMin, yMax))] >>
            /\ (Len(ret) = 3) <=> isPyramid
            /\ Len(ret) \in {3, 4}
            /\ ret[1].x = ret[2].x

\* a pyramid from a scalar x and a range y: the apex is at y = 7/2
C2_Witness ==
    /\ fn = "getRectPoints"
    /\ isPyramid
    /\ pointInfo = [x |-> Num(R(10)), y |-> Arr(<<R(0), R(7)>>), y0 |-> R(2), size |-> R(4)]
    /\ ret = << [x |-> R(8), y |-> R(0)], [x |-> R(8), y |-> R(7)],
                [x |-> R(12), y |-> Rat(7, 2)] >>

C3_Input == [x |-> Num(R(10)), y |-> Num(R(6)), y0 |-> R(2), size |-> R(4)]

C3_Case == fn = "getRectPoints" /\ ~isPyramid /\ pointInfo = C3_Input

\* C3 as stated: for size=4, x=10, y=6, y0=2, no pyramid, getRectPoints returns
\* (6,2), (6,6), (12,6), (12,2).
C3_AsStated ==
    C3_Case =>
        ret = << [x |-> R(6), y |-> R(2)], [x |-> R(6), y |-> R(6)],
                 [x |-> R(12), y |-> R(6)], [x |-> R(12), y |-> R(2)] >>

\* C3 amended: for size=4, x=10, y=6, y0=2, no pyramid, getRectPoints returns
\* (8,2), (8,6), (12,6), (12,2): xMin = 10 - 4/2 = 8.
C3_Amended ==
    C3_Case =>
        ret = << [x |-> R(8), y |-> R(2)], [x |-> R(8), y |-> R(6)],
                 [x |-> R(12), y |-> R(6)], [x |-> R(12), y |-> R(2)] >>

C3_Witness == C3_Case /\ Len(ret) = 4 /\ ret[1] = [x |-> R(8), y |-> R(2)]

\* C4: getRectPath emits a Move to points[0], a Line to each further point in
\* order, and, only when closed, a Line back to points[0] and a Close: n + 2
\* commands when closed, n commands and no Close when open.
C4_RectPath ==
    fn = "getRectPath" =>
        LET n == Len(points) IN
        /\ n >= 1
        /\ Len(ret) >= n
        /\ ret[1] = <<"M", points[1].x, points[1].y>>
        /\ \A i \in 2..n : ret[i] = <<"L", points[i].x, points[i].y>>
        /\ isClosed =>
            /\ Len(ret) = n + 2
            /\ ret[n + 1] = <<"L", points[1].x, points[1].y>>
            /\ ret[n + 2] = <<"z">>
        /\ ~isClosed =>
            /\ Len(ret) = n
            /\ \A i \in 1..Len(ret) : ret[i][1] # "z"

C4_WitnessClosed ==
    /\ fn = "getRectPath"
    /\ isClosed
    /\ Len(points) = 3
    /\ Len(ret) = 5

C4_WitnessOpen ==
    /\ fn = "getRectPath"
    /\ ~isClosed
    /\ Len(points) = 1
    /\ ret = << <<"M", points[1].x, points[1].y>> >>

\* style?.radius as the call found it
Radius == styleRadius(before.style)

\* per-corner mode: the last call was getIntervalRectPath with a lineCap other
\* than 'round' and a radius in the style that the code takes as one (a list,
\* or a number other than 0)
CornerCase ==
    /\ fn = "getIntervalRectPath"
    /\ lineCap # "round"
    /\ Truthy(Radius)

\* a path command's trailing coordinate pair, as a point
Trailing(cmd) == [x |-> cmd[Len(cmd) - 1], y |-> cmd[Len(cmd)]]
\* a path command without its trailing coordinate pair
Leading(cmd) == SubSeq(cmd, 1, Len(cmd) - 2)
IsArc(cmd) == cmd[1] = "A"

\* C5 as stated: getIntervalRectPath emits the round-cap path when lineCap is
\* 'round', with or without a radius in the style; otherwise the per-corner
\* path when the style specifies a radius; otherwise exactly
\* getRectPath(points, true).
C5_AsStated ==
    fn = "getIntervalRectPath" =>
        IF lineCap = "round"
        THEN ret = roundCapPath(before.points, coor)
        ELSE IF ~isNil(Radius)
        THEN ret = cornerPath(before.points, coor, Radius)
        ELSE ret = getRectPath(before.points, TRUE)

\* C5 amended: getIntervalRectPath emits the round-cap path when lineCap is
\* 'round', with or without a radius in the style; otherwise the per-corner
\* path when the style's radius is a list or a number other than 0; otherwise
\* (no style, no radius, or the number 0) exactly getRectPath(points, true).
C5_ModePrecedence ==
    fn = "getIntervalRectPath" =>
        IF lineCap = "round"
        THEN ret = roundCapPath(before.points, coor)
        ELSE IF Truthy(Radius)
        THEN ret = cornerPath(before.points, coor, Radius)
        ELSE ret = getRectPath(before.points, TRUE)

\* the radius is the number 0: the straight path is returned, and the trip
\* through visual space, which is not taken, would have moved a vertex
C5_Witness ==
    /\ fn = "getIntervalRectPath"
    /\ lineCap = "butt"
    /\ Radius = Num(R(0))
    /\ ret = getRectPath(before.points, TRUE)
    /\ ret # cornerPath(before.points, coor, Radius)

\* C6: in round-cap mode the path is Move(p0.x, p0.y+ry), Line(p1.x, p1.y-ry),
\* Arc(r,r,0,0,1,p2.x,p2.y-ry), Line(p3.x, p3.y+ry), Arc(r,r,0,0,1,p0.x,p0.y+ry),
\* Close for a rect coordinate system, and the same without the ry inset for any
\* other, with r = (p2.x - p1.x)/2 and ry = r*height/width when transposed,
\* r*width/height otherwise.
C6_RoundCap ==
    fn = "getIntervalRectPath" /\ lineCap = "round" =>
        LET p0 == before.points[1]
            p1 == before.points[2]
            p2 == before.points[3]
            p3 == before.points[4]
            r == Half(Minus(p2.x, p1.x))
            ry == IF coor.isTransposed
                  THEN Over(Times(r, coor.height), coor.width)
                  ELSE Over(Times(r, coor.width), coor.height)
            inset == IF coor.type = "rect" THEN ry ELSE R(0)
        IN  /\ ret = << <<"M", p0.x, Plus(p0.y, inset)>>,
                        <<"L", p1.x, Minus(p1.y, inset)>>,
                        <<"A", r, r, R(0), R(0), R(1), p2.x, Minus(p2.y, inset)>>,
                        <<"L", p3.x, Plus(p3.y, inset)>>,
                        <<"A", r, r, R(0), R(0), R(1), p0.x, Plus(p0.y, inset)>>,
                        <<"z">> >>
            /\ Trailing(ret[5]) = Trailing(ret[1])

\* transposed rect system, 300 x 200, top edge of length 4: r = 2 and
\* ry = 400 / 300, so the Move is at y = 2 + 400/300, which is not 10/3
C6_Witness ==
    /\ fn = "getIntervalRectPath"
    /\ lineCap = "round"
    /\ coor.type = "rect" /\ coor.isTransposed
    /\ coor.width = R(300) /\ coor.height = R(200)
    /\ before.points[1] = [x |-> R(8), y |-> R(2)]
    /\ ret[1] = <<"M", R(8), Plus(R(2), Rat(400, 300))>>
    /\ ret[1][3] # Rat(10, 3)
    /\ ret[3] = <<"A", R(2), R(2), R(0), R(0), R(1), R(12), Minus(R(6), Rat(400, 300))>>

\* invertPoint undoes convert on the four key points of the call
RoundTrips ==
    \A i \in 1..4 :
        invertPoint(coor, convert(coor, before.points[i])) = before.points[i]

\* C7: with lineCap not 'round', a radius that normalizes to (0,0,0,0), given
\* as the number 0 or as a list, and invertPoint the inverse of convert, the
\* path has no Arc and is the closed rectangle points[0], points[1], points[2],
\* points[3], points[0], Close, the same as getRectPath(points, true).
C7_ZeroRadii ==
    /\ fn = "getIntervalRectPath"
    /\ lineCap # "round"
    /\ ~isNil(Radius)
    /\ \A i \in 1..4 : StrictEq(parseRadius(Radius)[i], R(0))
    /\ RoundTrips
    => LET p == before.points IN
       /\ \A i \in 1..Len(ret) : ~IsArc(ret[i])
       /\ ret = << <<"M", p[1].x, p[1].y>>, <<"L", p[2].x, p[2].y>>,
                   <<"L", p[3].x, p[3].y>>, <<"L", p[4].x, p[4].y>>,
                   <<"L", p[1].x, p[1].y>>, <<"z">> >>
       /\ ret = getRectPath(p, TRUE)

\* a list of zeros takes the per-corner branch, in a transposed system, and
\* every vertex comes back from visual space as it was
C7_Witness ==
    /\ CornerCase
    /\ Radius = Arr(<<R(0), R(0)>>)
    /\ coor.isTransposed
    /\ RoundTrips
    /\ before.points[3] = [x |-> R(12), y |-> R(6)]
    /\ Len(ret) = 6
    /\ ret[3] = <<"L", R(12), R(6)>>

\* C8: getFunnelPath returns Move, Line, Line, Line, Close tracing points[0],
\* points[1], nextPoints[1], nextPoints[0] when nextPoints is supplied;
\* points[0], points[1], points[2], points[2] when it is absent and isPyramid;
\* points[0], points[1], points[2], points[3] when it is absent and not isPyramid.
C8_Funnel ==
    fn = "getFunnelPath" =>
        LET absent == nextPoints.type \in {"undefined", "null"}
            v == IF ~absent
                 THEN <<points[1], points[2], nextPoints.v[2], nextPoints.v[1]>>
                 ELSE IF isPyramid
                 THEN <<points[1], points[2], points[3], points[3]>>
                 ELSE <<points[1], points[2], points[3], points[4]>>
        IN  /\ Len(ret) = 5
            /\ ret[1] = <<"M", v[1].x, v[1].y>>
            /\ \A i \in 2..4 : ret[i] = <<"L", v[i].x, v[i].y>>
            /\ ret[5] = <<"Z">>
            /\ absent /\ isPyramid => ret[3] = ret[4]

\* next level supplied and different from the current one
C8_Witness ==
    /\ fn = "getFunnelPath"
    /\ nextPoints.type = "array"
    /\ nextPoints.v[1] # points[1]
    /\ nextPoints.v[1] # nextPoints.v[2]
    /\ ret[4] = <<"L", nextPoints.v[1].x, nextPoints.v[1].y>>

\* the Arc of a corner, present exactly when the corner's radius is not 0
ArcIf(r, ex, ey) ==
    IF StrictEq(r, R(0)) THEN <<>> ELSE << <<"A", r, r, R(0), R(0), R(1), ex, ey>> >>

\* C9: in per-corner mode the path is built in visual space as
\* Move(c0.x, c0.y-r1), Line(c1.x, c1.y+r2), [Arc r2 to (c1.x+r2, c1.y)],
\* Line(c2.x-r3, c2.y), [Arc r3 to (c2.x, c2.y+r3)], Line(c3.x, c3.y-r4),
\* [Arc r4 to (c3.x-r4, c3.y)], Line(c0.x+r1, c0.y), [Arc r1 to (c0.x, c0.y-r1)],
\* Close, an Arc being present exactly when its radius is not 0, and each
\* command's end point is returned in data space: 6 + (number of non-zero
\* radii) commands, every Arc circular with rotation 0, large-arc flag 0 and
\* sweep flag 1, and the last drawing command ends where the Move starts.
C9_CornerPath ==
    CornerCase =>
        LET rr == parseRadius(Radius)
            r1 == rr[1]
            r2 == rr[2]
            r3 == rr[3]
            r4 == rr[4]
            c0 == convert(coor, before.points[1])
            c1 == convert(coor, before.points[2])
            c2 == convert(coor, before.points[3])
            c3 == convert(coor, before.points[4])
            nonZero == Cardinality({i \in 1..4 : ~StrictEq(rr[i], R(0))})
            last == Len(ret) - 1
            visual ==
                  << <<"M", c0.x, Minus(c0.y, r1)>>, <<"L", c1.x, Plus(c1.y, r2)>> >>
                  \o ArcIf(r2, Plus(c1.x, r2), c1.y)
                  \o << <<"L", Minus(c2.x, r3), c2.y>> >>
                  \o ArcIf(r3, c2.x, Plus(c2.y, r3))
                  \o << <<"L", c3.x, Minus(c3.y, r4)>> >>
                  \o ArcIf(r4, Minus(c3.x, r4), c3.y)
                  \o << <<"L", Plus(c0.x, r1), c0.y>> >>
                  \o ArcIf(r1, c0.x, Minus(c0.y, r1))
        IN  /\ Len(ret) = 6 + nonZero
            /\ ret[Len(ret)] = <<"z">>
            /\ Len(visual) = last
            /\ \A i \in 1..last :
                  /\ Leading(ret[i]) = Leading(visual[i])
                  /\ Trailing(ret[i]) = invertPoint(coor, Trailing(visual[i]))
            /\ \A i \in 1..last :
                  IsArc(ret[i]) =>
                      /\ ret[i][2] = ret[i][3]
                      /\ ret[i][4] = R(0) /\ ret[i][5] = R(0) /\ ret[i][6] = R(1)
            /\ Trailing(visual[last]) = Trailing(visual[1])
            /\ Trailing(ret[last]) = Trailing(ret[1])

\* r1 = 0 with the other three corners rounded by different radii, on key
\* points that do not come back from visual space as they were
C9_Witness ==
    /\ CornerCase
    /\ Radius = Arr(<<R(0), R(1), R(2), R(1)>>)
    /\ ~RoundTrips
    /\ Len(ret) = 9
    /\ ret[8][1] = "L"
    /\ Trailing(ret[8]) = Trailing(ret[1])
    /\ Trailing(ret[1]) # before.points[1]

\* C10: per-corner mode leaves the caller's points and the style's radius as
\* they were; every Move, Line and Arc has its trailing coordinate pair
\* replaced, once, by invertPoint of its visual-space value, its other fields
\* unchanged; the final Close is not passed through invertPoint.
C10_Frame ==
    CornerCase =>
        LET built == visualPath([i \in 1..4 |-> convert(coor, before.points[i])],
                                parseRadius(Radius))
        IN  /\ points = before.points
            /\ points = getRectPoints(pointInfo, FALSE)
            /\ style = before.style
            /\ Len(ret) = Len(built) + 1
            /\ \A i \in 1..Len(built) :
                  LET inv == invertPoint(coor, Trailing(built[i])) IN
                  /\ Leading(ret[i]) = Leading(built[i])
                  /\ Trailing(ret[i]) = inv
                  /\ Len(ret[i]) = Len(built[i])
            /\ ret[Len(ret)] = <<"z">>

\* four rounded corners: the first Arc ends at visual x = 8 * 300 + 2, which
\* comes back as 2402 / 300
C10_Witness ==
    /\ CornerCase
    /\ Radius = Num(R(2))
    /\ coor.width = R(300) /\ ~coor.isTransposed
    /\ points[2] = [x |-> R(8), y |-> R(6)]
    /\ Len(ret) = 10
    /\ ret[3] = <<"A", R(2), R(2), R(0), R(0), R(1), Rat(2402, 300), R(6)>>

====
